---- MODULE Spec2Model ----
(***************************************************************************)
(* Fan analytics: conversation segmentation (segmentation.py), engagement  *)
(* stage assignment (stage_segmentation.py) and the cached batch profiler  *)
(* (fan_profiler.py).                                                      *)
(*                                                                         *)
(* Strings that the code concatenates or orders (fan_id, model_id,         *)
(* fan_model_id, conversation_id) are sequences of one-character strings.  *)
(* Timestamps are whole hours.  A data frame is the sequence of its rows.  *)
(***************************************************************************)
EXTENDS Integers, Sequences, FiniteSets, TLC

\* ------------------------------------------------------------------ bounds
\* Longest event log fed to the segmentation pipeline.
MaxEvents == 3
\* Longest event log fed to the staging pipeline.
MaxStageEvents == 3
\* Latest timestamp of an event, in hours.
MaxTime == 5
\* Most fans in the frame given to profile_fans.
MaxFans == 3
\* Fans per batch (the script runs with 20).
BATCH_SIZE == 2
\* Calls of profile_fans against one cache directory.
MaxRuns == 2

\* --------------------------------------------------------------- constants
\* timedelta(hours=4) of assign_conversations.
GapHours == 4

VARIABLES
    df,     \* the data frame the pipeline scripts hand from step to step
    pc      \* position of the pipeline: raw, clean, loaded, convos, staged

VARIABLES
    cache,                  \* CACHE_DIR: hash key -> file content
    ppc,                    \* position of profile_fans
    runs,                   \* calls of profile_fans so far
    fan_ids,                \* fan_ids of the current call
    all_fan_texts,          \* all_fan_texts of the current call
    batch_i,                \* i: index of the first fan of the current batch
    to_query_ids,
    to_query_texts,
    final_batch_profiles,
    new_profiles,           \* what call_llm_batch returned
    zip_k,                  \* position of the loop over new_profiles
    profiles,
    result,                 \* rows of the DataFrame the last call returned
    response,               \* what the service did on the batch's call
    batchCalls,             \* requests the service got for the current batch
    sent                    \* text -> was it submitted never, once, again

pipeVars == <<df, pc>>
profVars == <<cache, ppc, runs, fan_ids, all_fan_texts, batch_i,
              to_query_ids, to_query_texts, final_batch_profiles, new_profiles,
              zip_k, profiles,
              result, response, batchCalls, sent>>
vars == <<df, pc, cache, ppc, runs, fan_ids, all_fan_texts, batch_i,
          to_query_ids, to_query_texts, final_batch_profiles, new_profiles,
          zip_k, profiles,
          result, response, batchCalls, sent>>

\* ------------------------------------------------------- strings and order
\* Code point of a character (Python orders str by code point).
Ord(c) ==
    CASE c = "0" -> 48 [] c = "1" -> 49 [] c = "2" -> 50 [] c = "3" -> 51
      [] c = "4" -> 52 [] c = "5" -> 53 [] c = "6" -> 54 [] c = "7" -> 55
      [] c = "8" -> 56 [] c = "9" -> 57 [] c = "C" -> 67 [] c = "_" -> 95
      [] c = "a" -> 97 [] c = "b" -> 98 [] c = "c" -> 99

RECURSIVE StrLess(_, _)
\* s < t for Python strings.
StrLess(s, t) ==
    IF t = <<>> THEN FALSE
    ELSE IF s = <<>> THEN TRUE
    ELSE IF Ord(Head(s)) # Ord(Head(t)) THEN Ord(Head(s)) < Ord(Head(t))
    ELSE StrLess(Tail(s), Tail(t))

Digit(d) ==
    CASE d = 0 -> "0" [] d = 1 -> "1" [] d = 2 -> "2" [] d = 3 -> "3"
      [] d = 4 -> "4" [] d = 5 -> "5" [] d = 6 -> "6" [] d = 7 -> "7"
      [] d = 8 -> "8" [] d = 9 -> "9"

RECURSIVE IntToStr(_)
\* astype(str) of a non-negative integer.
IntToStr(n) ==
    IF n < 10 THEN <<Digit(n)>>
    ELSE Append(IntToStr(n \div 10), Digit(n % 10))

\* fan_id.astype(str) + "_" + model_id.astype(str)
FanModelId(fan_id, model_id) == fan_id \o <<"_">> \o model_id

\* ----------------------------------------------------------------- sorting
\* Order of sort_values(by=['fan_model_id', 'timestamp']).
KeyLess(r, s) ==
    \/ StrLess(r.fan_model_id, s.fan_model_id)
    \/ r.fan_model_id = s.fan_model_id /\ r.timestamp < s.timestamp

RECURSIVE InsertByKey(_, _)
\* Insert r behind every row that does not sort after it (stable).
InsertByKey(sorted, r) ==
    IF sorted = <<>> THEN <<r>>
    ELSE IF KeyLess(r, Head(sorted)) THEN <<r>> \o sorted
    ELSE <<Head(sorted)>> \o InsertByKey(Tail(sorted), r)

RECURSIVE SortByKey(_)
SortByKey(rows) ==
    IF rows = <<>> THEN <<>>
    ELSE InsertByKey(SortByKey(SubSeq(rows, 1, Len(rows) - 1)), rows[Len(rows)])

RECURSIVE InsertByTime(_, _)
InsertByTime(sorted, r) ==
    IF sorted = <<>> THEN <<r>>
    ELSE IF r.timestamp < Head(sorted).timestamp THEN <<r>> \o sorted
    ELSE <<Head(sorted)>> \o InsertByTime(Tail(sorted), r)

RECURSIVE SortByTime(_)
\* group.sort_values(by="timestamp")
SortByTime(rows) ==
    IF rows = <<>> THEN <<>>
    ELSE InsertByTime(SortByTime(SubSeq(rows, 1, Len(rows) - 1)), rows[Len(rows)])

\* --------------------------------------------------------- segmentation.py
\* preprocess: purchase tokens to booleans, fan_model_id, sort (stable, as
\* pandas sorts on several columns).  The logs have no is_system column.
PurchaseFlag(p) == IF p = TRUE THEN TRUE ELSE FALSE

preprocess(raw) ==
    SortByKey([i \in DOMAIN raw |->
        [fan_id |-> raw[i].fan_id, model_id |-> raw[i].model_id,
         timestamp |-> raw[i].timestamp,
         purchase |-> PurchaseFlag(raw[i].purchase),
         fan_model_id |-> FanModelId(raw[i].fan_id, raw[i].model_id)]])

\* Rows before row i that belong to row i's fan_model_id group.
GroupBefore(rows, i) ==
    {j \in 1..(i - 1) : rows[j].fan_model_id = rows[i].fan_model_id}

Max(S) == CHOOSE m \in S : \A k \in S : k <= m

\* groupby('fan_model_id')[col].shift(1): index of the previous row of the
\* group, 0 when there is none (NaN / NaT).
ShiftIdx(rows, i) ==
    IF GroupBefore(rows, i) = {} THEN 0 ELSE Max(GroupBefore(rows, i))

\* TimeGap with the threshold itself taken as a gap.
TimeGapInclusive(rows, i) ==
    /\ ShiftIdx(rows, i) # 0
    /\ rows[i].timestamp - rows[ShiftIdx(rows, i)].timestamp >= GapHours

\* time_diff > timedelta(hours=4); a comparison with NaT is False.
TimeGap(rows, i) ==
    /\ ShiftIdx(rows, i) # 0
    /\ rows[i].timestamp - rows[ShiftIdx(rows, i)].timestamp > GapHours

\* model_id != prev_model; a comparison with NaN is True.
ModelSwitch(rows, i) ==
    \/ ShiftIdx(rows, i) = 0
    \/ rows[i].model_id # rows[ShiftIdx(rows, i)].model_id

NewConvo(rows, i) == ModelSwitch(rows, i) \/ TimeGap(rows, i)

\* ConvoId as a sum that leaves out the row's own flag.
ConvoIdExclusive(rows, i) ==
    Cardinality({j \in GroupBefore(rows, i) : NewConvo(rows, j)})

\* groupby('fan_model_id')['new_convo'].cumsum()
ConvoId(rows, i) ==
    Cardinality({j \in GroupBefore(rows, i) \cup {i} : NewConvo(rows, j)})

assign_conversations(rows) ==
    [i \in DOMAIN rows |->
        [fan_id |-> rows[i].fan_id, model_id |-> rows[i].model_id,
         timestamp |-> rows[i].timestamp, purchase |-> rows[i].purchase,
         fan_model_id |-> rows[i].fan_model_id,
         new_convo |-> NewConvo(rows, i),
         convo_id |-> ConvoId(rows, i),
         conversation_id |->
             rows[i].fan_model_id \o <<"_", "C">> \o IntToStr(ConvoId(rows, i))]]

\* --------------------------------------------------- stage_segmentation.py
\* load_data: fan_model_id and sort; the purchase column is left as read.
load_data(raw) ==
    SortByKey([i \in DOMAIN raw |->
        [fan_id |-> raw[i].fan_id, model_id |-> raw[i].model_id,
         timestamp |-> raw[i].timestamp, purchase |-> raw[i].purchase,
         fan_model_id |-> FanModelId(raw[i].fan_id, raw[i].model_id)]])

RECURSIVE SortedKeys(_)
\* The group keys in the order groupby iterates them (ascending).
SortedKeys(S) ==
    IF S = {} THEN <<>>
    ELSE LET k == CHOOSE x \in S : \A y \in S \ {x} : StrLess(x, y)
         IN <<k>> \o SortedKeys(S \ {k})

GroupKeys(rows) == SortedKeys({rows[i].fan_model_id : i \in DOMAIN rows})

InGroup(k, r) == r.fan_model_id = k
IsPurchase(r) == r.purchase = TRUE

WithStage(rows, s) ==
    [i \in DOMAIN rows |-> [c \in (DOMAIN rows[i]) \cup {"stage"} |->
        IF c = "stage" THEN s ELSE rows[i][c]]]

\* InStage1 without the first purchase's own timestamp.
InStage1Strict(r, first) == r.timestamp < first

\* timestamp <= first_purchase
InStage1(r, first) == r.timestamp <= first
\* (timestamp > first_purchase) & (timestamp <= last_purchase)
InStage2(r, first, last) == r.timestamp > first /\ r.timestamp <= last
\* timestamp > last_purchase
InStage3(r, last) == r.timestamp > last

\* The body of the loop of assign_stages for one group.
StageGroup(grp) ==
    LET group == SortByTime(grp)
        purchases == SelectSeq(group, IsPurchase)
    IN IF purchases = <<>> THEN WithStage(group, "stage_1")
       ELSE LET first == purchases[1].timestamp
                last == purchases[Len(purchases)].timestamp
                In1(r) == InStage1(r, first)
                In2(r) == InStage2(r, first, last)
                In3(r) == InStage3(r, last)
                stage1 == WithStage(SelectSeq(group, In1), "stage_1")
                stage2 == IF first # last
                          THEN WithStage(SelectSeq(group, In2), "stage_2")
                          ELSE <<>>
                stage3 == WithStage(SelectSeq(group, In3), "stage_3")
            IN stage1 \o stage2 \o stage3

RECURSIVE ConcatGroups(_, _)
ConcatGroups(rows, keys) ==
    IF keys = <<>> THEN <<>>
    ELSE LET Mine(r) == InGroup(Head(keys), r)
         IN StageGroup(SelectSeq(rows, Mine)) \o ConcatGroups(rows, Tail(keys))

assign_stages(rows) == ConcatGroups(rows, GroupKeys(rows))

\* ------------------------------------------------------------------ inputs
IdA == <<"a">>
IdAB == <<"a", "_", "b">>
IdBC == <<"b", "_", "c">>
IdC == <<"c">>

Timestamps == 0..MaxTime

\* (fan_id, model_id) pairs: "a"+"b_c" and "a_b"+"c" share fan_model_id
\* "a_b_c" with different models; "a"+"c" is a second group.
SegPairs == {<<IdA, IdBC>>, <<IdAB, IdC>>, <<IdA, IdC>>}
StagePairs == {<<IdAB, IdC>>, <<IdA, IdC>>}

SegEvents ==
    {[fan_id |-> p[1], model_id |-> p[2], timestamp |-> t, purchase |-> FALSE] :
        p \in SegPairs, t \in Timestamps}

StageEvents ==
    {[fan_id |-> p[1], model_id |-> p[2], timestamp |-> t, purchase |-> b] :
        p \in StagePairs, t \in Timestamps, b \in BOOLEAN}

Logs(events, n) == UNION {[1..k -> events] : k \in 0..n}

\* ----------------------------------------------------------------- actions
\* segmentation.main: clean = preprocess(raw)
Preprocess ==
    /\ pc = "raw"
    /\ df' = preprocess(df)
    /\ pc' = "clean"
    /\ UNCHANGED profVars

\* segmentation.main: convos = assign_conversations(clean)
AssignConversations ==
    /\ pc = "clean"
    /\ df' = assign_conversations(df)
    /\ pc' = "convos"
    /\ UNCHANGED profVars

\* stage_segmentation.main: df = load_data()
LoadData ==
    /\ pc = "raw"
    /\ df' = load_data(df)
    /\ pc' = "loaded"
    /\ UNCHANGED profVars

\* stage_segmentation.main: staged_df = assign_stages(df), on the loaded
\* log or on the segmenter's output.
AssignStages ==
    /\ pc \in {"loaded", "convos"}
    /\ df' = assign_stages(df)
    /\ pc' = IF pc = "loaded" THEN "staged" ELSE "staged_convos"
    /\ UNCHANGED profVars


\* ---------------------------------------------------------- fan_profiler.py
\* Fans are numbered in the order groupby yields their fan_model_id.
Fans == 1..MaxFans
Texts == {"t1", "t2"}
Bodies == {"p1"}

\* hashlib.md5(text.encode()).hexdigest(): one key per text.
get_hash(text) == <<"md5", text>>
HashKeys == {get_hash(t) : t \in Texts}

Absent == [file |-> "absent"]      \* no file for the key
Corrupt == [file |-> "corrupt"]    \* a file json.load cannot decode

\* What the service can put in its array: a dict with the prompt's field
\* names, or a JSON value that is no dict.
NonDict == [nondict |-> TRUE]
ServiceDicts == {[keys |-> "human", body |-> b] : b \in Bodies}
Elements == ServiceDicts \cup {NonDict}
\* {} of call_llm_batch's fallback.
EmptyDict == [keys |-> "none", body |-> "empty"]

\* normalize_keys: the prompt's field names become snake_case.
normalize_keys(d) ==
    [keys |-> IF d.keys = "human" THEN "snake" ELSE d.keys, body |-> d.body]

\* prof['fan_model_id'] = fan_id
Tagged(d, fan_id) == [fan_model_id |-> fan_id, keys |-> d.keys, body |-> d.body]

\* {"fan_model_id": fan_id}
Placeholder(fan_id) == [fan_model_id |-> fan_id, keys |-> "none", body |-> "empty"]

\* load_cache raises when the file does not decode.
LoadRaises(c, text) == c[get_hash(text)] = Corrupt

\* IsCached of a profiler that never looks into the cache.
IsCachedNever(c, text) == FALSE

\* "if cached:" of profile_fans: load_cache returned a non-empty dict.
IsCached(c, text) == c[get_hash(text)] \notin {Absent, Corrupt}

Min(a, b) == IF a < b THEN a ELSE b

\* all_fan_texts[batch_i:batch_i + BATCH_SIZE], as indices.
BatchIdx(n, start) == start..Min(start + BATCH_SIZE - 1, n)

RECURSIVE Misses(_, _, _, _)
\* Indices lo..hi of the fans the partition loop sends to the service.
Misses(c, texts, lo, hi) ==
    IF lo > hi THEN <<>>
    ELSE (IF IsCached(c, texts[lo]) THEN <<>> ELSE <<lo>>)
         \o Misses(c, texts, lo + 1, hi)

RECURSIVE Hits(_, _, _, _)
Hits(c, texts, lo, hi) ==
    IF lo > hi THEN <<>>
    ELSE (IF IsCached(c, texts[lo]) THEN <<lo>> ELSE <<>>)
         \o Hits(c, texts, lo + 1, hi)

NoResponse == [kind |-> "none"]

\* What the service does on one call with n transcripts.
Responses(n) ==
    {[kind |-> "raise"], [kind |-> "noarray"], [kind |-> "unparsable"]}
    \cup {[kind |-> "array", items |-> a] :
             a \in UNION {[1..m -> Elements] : m \in 0..(n + 1)}}

\* call_llm_batch after the service answered.
call_llm_batch(conversations_list, resp) ==
    IF resp.kind = "array" THEN resp.items
    ELSE [j \in 1..Len(conversations_list) |-> EmptyDict]

Occurrences(texts, t) == Cardinality({j \in DOMAIN texts : texts[j] = t})

\* The submission count of a text after n more submissions: "never", "once"
\* or "again" (more than once).
Submitted(before, n) ==
    IF n = 0 THEN before
    ELSE IF before = "never" /\ n = 1 THEN "once"
    ELSE "again"

\* Length of zip(new_profiles, to_query_ids, to_query_texts).
ZipLen == Min(Len(new_profiles), Len(to_query_ids))

PlaceholdersFor(ids) == [j \in 1..Len(ids) |-> Placeholder(ids[j])]

\* profile_fans, lines 114-123: group the frame, one text per fan.
StartRun ==
    /\ ppc \in {"idle", "crashed"}
    /\ runs < MaxRuns
    /\ \E S \in SUBSET Fans : \E txt \in [S -> Texts] :
          LET n == Cardinality(S)
              ids == [j \in 1..n |-> CHOOSE f \in S :
                         Cardinality({g \in S : g < f}) = j - 1]
          IN /\ fan_ids' = ids
             /\ all_fan_texts' = [j \in 1..n |-> txt[ids[j]]]
             /\ ppc' = IF n = 0 THEN "return" ELSE "batch"
    /\ runs' = runs + 1
    /\ batch_i' = 1
    /\ profiles' = <<>>
    /\ result' = <<>>
    /\ to_query_ids' = <<>>
    /\ to_query_texts' = <<>>
    /\ final_batch_profiles' = <<>>
    /\ new_profiles' = <<>>
    /\ zip_k' = 1
    /\ response' = NoResponse
    /\ batchCalls' = <<>>
    /\ UNCHANGED <<df, pc, cache, sent>>

\* Lines 126-142: split the batch into cache hits and fans to query.
PartitionBatch ==
    /\ ppc = "batch"
    /\ \A j \in BatchIdx(Len(fan_ids), batch_i) : ~LoadRaises(cache, all_fan_texts[j])
    /\ LET hi == Min(batch_i + BATCH_SIZE - 1, Len(fan_ids))
           miss == Misses(cache, all_fan_texts, batch_i, hi)
           hit == Hits(cache, all_fan_texts, batch_i, hi)
       IN /\ to_query_ids' = [j \in 1..Len(miss) |-> fan_ids[miss[j]]]
          /\ to_query_texts' = [j \in 1..Len(miss) |-> all_fan_texts[miss[j]]]
          /\ final_batch_profiles' =
                [j \in 1..Len(hit) |->
                    Tagged(normalize_keys(cache[get_hash(all_fan_texts[hit[j]])]),
                           fan_ids[hit[j]])]
          /\ ppc' = IF miss = <<>> THEN "extend" ELSE "query"
    /\ new_profiles' = <<>>
    /\ zip_k' = 1
    /\ response' = NoResponse
    /\ batchCalls' = <<>>
    /\ UNCHANGED <<df, pc, cache, runs, fan_ids, all_fan_texts, batch_i, profiles, result, sent>>

\* Line 135 raises: json.load on a file that does not decode.  Nothing in
\* profile_fans catches it.
LoadCacheRaises ==
    /\ ppc = "batch"
    /\ \E j \in BatchIdx(Len(fan_ids), batch_i) : LoadRaises(cache, all_fan_texts[j])
    /\ ppc' = "crashed"
    /\ UNCHANGED <<df, pc, cache, runs, fan_ids, all_fan_texts, batch_i, to_query_ids,
                   to_query_texts, final_batch_profiles, new_profiles, zip_k,
                   profiles, result, response, batchCalls, sent>>

\* Line 147: the one call of the batch, and lines 154-157 when it raises.
QueryLLM ==
    /\ ppc = "query"
    /\ \E resp \in Responses(Len(to_query_texts)) :
          /\ response' = [kind |-> resp.kind]
          /\ IF resp.kind = "raise"
             THEN /\ new_profiles' = <<>>
                  /\ final_batch_profiles' =
                        final_batch_profiles \o PlaceholdersFor(to_query_ids)
                  /\ ppc' = "extend"
             ELSE /\ new_profiles' = call_llm_batch(to_query_texts, resp)
                  /\ final_batch_profiles' = final_batch_profiles
                  /\ ppc' = IF Min(Len(call_llm_batch(to_query_texts, resp)),
                                   Len(to_query_ids)) = 0
                            THEN "extend" ELSE "handle"
    /\ zip_k' = 1
    /\ batchCalls' = Append(batchCalls, to_query_texts)
    /\ sent' = [t \in Texts |-> Submitted(sent[t], Occurrences(to_query_texts, t))]
    /\ UNCHANGED <<df, pc, cache, runs, fan_ids, all_fan_texts, batch_i, to_query_ids,
                   to_query_texts, profiles, result>>

\* Lines 148-153, one pass of the loop: normalize, tag, save, append.
SaveProfile ==
    /\ ppc = "handle"
    /\ new_profiles[zip_k] # NonDict
    /\ LET prof == Tagged(normalize_keys(new_profiles[zip_k]), to_query_ids[zip_k])
       IN /\ cache' = [cache EXCEPT ![get_hash(to_query_texts[zip_k])] = prof]
          /\ final_batch_profiles' = Append(final_batch_profiles, prof)
    /\ zip_k' = zip_k + 1
    /\ ppc' = IF zip_k + 1 > ZipLen THEN "extend" ELSE "handle"
    /\ UNCHANGED <<df, pc, runs, fan_ids, all_fan_texts, batch_i, to_query_ids, to_query_texts,
                   new_profiles, profiles, result, response, batchCalls, sent>>

\* Line 152 raises (save_cache cannot open the file, or cannot finish
\* writing the file it truncated), then lines 154-157.
SaveCacheRaises ==
    /\ ppc = "handle"
    /\ new_profiles[zip_k] # NonDict
    /\ \E left \in {cache[get_hash(to_query_texts[zip_k])], Corrupt} :
          cache' = [cache EXCEPT ![get_hash(to_query_texts[zip_k])] = left]
    /\ final_batch_profiles' = final_batch_profiles \o PlaceholdersFor(to_query_ids)
    /\ ppc' = "extend"
    /\ UNCHANGED <<df, pc, runs, fan_ids, all_fan_texts, batch_i, to_query_ids, to_query_texts,
                   new_profiles, zip_k, profiles, result, response, batchCalls, sent>>

\* Line 149 raises (the element has no .items()), then lines 154-157.
NormalizeRaises ==
    /\ ppc = "handle"
    /\ new_profiles[zip_k] = NonDict
    /\ final_batch_profiles' = final_batch_profiles \o PlaceholdersFor(to_query_ids)
    /\ ppc' = "extend"
    /\ UNCHANGED <<df, pc, cache, runs, fan_ids, all_fan_texts, batch_i, to_query_ids,
                   to_query_texts, new_profiles, zip_k, profiles, result, response,
                   batchCalls, sent>>

\* Lines 159-162: the batch's rows join the output, on to the next batch.
ExtendProfiles ==
    /\ ppc = "extend"
    /\ profiles' = profiles \o final_batch_profiles
    /\ batch_i' = batch_i + BATCH_SIZE
    /\ ppc' = IF batch_i + BATCH_SIZE > Len(fan_ids) THEN "return" ELSE "batch"
    /\ UNCHANGED <<df, pc, cache, runs, fan_ids, all_fan_texts, to_query_ids,
                   to_query_texts, final_batch_profiles, new_profiles, zip_k,
                   result, response, batchCalls, sent>>

\* Line 164: return pd.DataFrame(profiles).
Return ==
    /\ ppc = "return"
    /\ result' = profiles
    /\ ppc' = "idle"
    /\ UNCHANGED <<df, pc, cache, runs, fan_ids, all_fan_texts, batch_i, to_query_ids,
                   to_query_texts, final_batch_profiles, new_profiles, zip_k,
                   profiles, response, batchCalls, sent>>

ProfIdle ==
    /\ cache = [h \in HashKeys |-> Absent]
    /\ ppc = "idle"
    /\ runs = 0
    /\ fan_ids = <<>>
    /\ all_fan_texts = <<>>
    /\ batch_i = 1
    /\ to_query_ids = <<>>
    /\ to_query_texts = <<>>
    /\ final_batch_profiles = <<>>
    /\ new_profiles = <<>>
    /\ zip_k = 1
    /\ profiles = <<>>
    /\ result = <<>>
    /\ response = NoResponse
    /\ batchCalls = <<>>
    /\ sent = [t \in Texts |-> "never"]

NextProf ==
    \/ StartRun
    \/ PartitionBatch
    \/ LoadCacheRaises
    \/ QueryLLM
    \/ SaveProfile
    \/ SaveCacheRaises
    \/ NormalizeRaises
    \/ ExtendProfiles
    \/ Return

InitProf ==
    /\ ProfIdle
    /\ pc = "raw"
    /\ df = <<>>

SpecProf == InitProf /\ [][NextProf]_vars

NextPipe ==
    \/ Preprocess
    \/ AssignConversations
    \/ LoadData
    \/ AssignStages

InitSeg ==
    /\ ProfIdle
    /\ pc = "raw"
    /\ df \in Logs(SegEvents, MaxEvents)

InitStage ==
    /\ ProfIdle
    /\ pc = "raw"
    /\ df \in Logs(StageEvents, MaxStageEvents)

SpecSeg == InitSeg /\ [][NextPipe]_vars
SpecStage == InitStage /\ [][NextPipe]_vars

\* ============================================================== properties
\* Helpers of the properties below.
GroupIds(rows) == {rows[n].fan_model_id : n \in DOMAIN rows}

\* The rows of one fan_model_id, in frame order.
GroupRows(rows, g) ==
    LET Mine(r) == r.fan_model_id = g IN SelectSeq(rows, Mine)

\* A conversation boundary between two consecutive events of a group.
Boundary(a, b) ==
    \/ b.timestamp - a.timestamp > 4
    \/ a.model_id # b.model_id

RECURSIVE StrToInt(_)
StrToInt(digits) ==
    IF digits = <<>> THEN 0
    ELSE 10 * StrToInt(SubSeq(digits, 1, Len(digits) - 1))
         + (Ord(digits[Len(digits)]) - 48)

\* The number behind fan_model_id + "_C" in a row's conversation_id.
SeqNo(r) ==
    StrToInt(SubSeq(r.conversation_id, Len(r.fan_model_id) + 3,
                    Len(r.conversation_id)))

HasConvoPrefix(r) ==
    /\ Len(r.conversation_id) > Len(r.fan_model_id) + 2
    /\ SubSeq(r.conversation_id, 1, Len(r.fan_model_id) + 2)
         = r.fan_model_id \o <<"_", "C">>

\* The numbers of a group's conversations start at first and go up by one
\* at each boundary.
NumberedFrom(rows, first) ==
    \A g \in GroupIds(rows) :
        LET grp == GroupRows(rows, g)
        IN /\ \A n \in DOMAIN grp : HasConvoPrefix(grp[n])
           /\ SeqNo(grp[1]) = first
           /\ \A n \in 1..(Len(grp) - 1) :
                 SeqNo(grp[n + 1]) =
                     SeqNo(grp[n]) + (IF Boundary(grp[n], grp[n + 1]) THEN 1 ELSE 0)

\* C7: after preprocess and assign_conversations, each group is in timestamp
\* order, two consecutive events of a group share their conversation_id
\* exactly when they are at most 4 hours apart and have the same model_id,
\* and every conversation is one contiguous run of its group.
C7_ConversationBoundaries ==
    pc = "convos" =>
        \A g \in GroupIds(df) :
            LET grp == GroupRows(df, g)
            IN /\ \A n \in 1..(Len(grp) - 1) :
                     /\ grp[n].timestamp <= grp[n + 1].timestamp
                     /\ (grp[n].conversation_id = grp[n + 1].conversation_id)
                            <=> ~Boundary(grp[n], grp[n + 1])
               /\ \A a, b, c \in DOMAIN grp :
                     (a < b /\ b < c
                        /\ grp[a].conversation_id = grp[c].conversation_id)
                     => grp[b].conversation_id = grp[a].conversation_id

\* A group with a gap of exactly 4 hours inside one conversation and a model
\* switch less than 4 hours later that starts the next one.
C7_Witness ==
    /\ pc = "convos"
    /\ \E g \in GroupIds(df) :
          LET grp == GroupRows(df, g)
          IN /\ Len(grp) = 3
             /\ grp[2].timestamp - grp[1].timestamp = 4
             /\ grp[1].model_id = grp[2].model_id
             /\ grp[1].conversation_id = grp[2].conversation_id
             /\ grp[3].timestamp - grp[2].timestamp < 4
             /\ grp[2].model_id # grp[3].model_id
             /\ grp[2].conversation_id # grp[3].conversation_id

\* C8 as stated: the sequence number in conversation_id starts at 0 in every
\* group and goes up by exactly 1 with each new conversation of the group.
C8_StartsAtZero == pc = "convos" => NumberedFrom(df, 0)

\* C8, amended: the sequence number in conversation_id starts at 1 in every
\* group and goes up by exactly 1 with each new conversation of the group; a
\* group of a single event gets the id ending in "_C1".
C8_StartsAtOne == pc = "convos" => NumberedFrom(df, 1)

\* A group of one event numbered 1 next to a group with conversations 1, 2.
C8_Witness ==
    /\ pc = "convos"
    /\ \E g, h \in GroupIds(df) :
          /\ Len(GroupRows(df, g)) = 1
          /\ GroupRows(df, g)[1].conversation_id = g \o <<"_", "C", "1">>
          /\ Len(GroupRows(df, h)) = 2
          /\ GroupRows(df, h)[1].conversation_id = h \o <<"_", "C", "1">>
          /\ GroupRows(df, h)[2].conversation_id = h \o <<"_", "C", "2">>

\* A row without its stage column.
Unstaged(r) == [c \in (DOMAIN r) \ {"stage"} |-> r[c]]

Count(rows, r) == Cardinality({n \in DOMAIN rows : Unstaged(rows[n]) = r})

\* after holds the rows of before, each as often as before does.
SameRows(before, after) ==
    /\ Len(before) = Len(after)
    /\ \A n \in DOMAIN before :
          Count(before, Unstaged(before[n])) = Count(after, Unstaged(before[n]))

\* The label the stage rule gives a timestamp, for the set P of purchase
\* timestamps that count.
RuleStage(t, P) ==
    IF P = {} THEN "stage_1"
    ELSE LET first == CHOOSE x \in P : \A y \in P : x <= y
             last == CHOOSE x \in P : \A y \in P : y <= x
         IN IF t <= first THEN "stage_1"
            ELSE IF t <= last THEN "stage_2"
            ELSE "stage_3"

PurchaseTimes(grp) == {grp[n].timestamp : n \in {m \in DOMAIN grp : grp[m].purchase}}

StagedByRule(rows) ==
    \A g \in GroupIds(rows) :
        LET grp == GroupRows(rows, g)
            P == PurchaseTimes(grp)
            buys == {m \in DOMAIN grp : grp[m].purchase}
        IN P # {} =>
             /\ \A n \in DOMAIN grp : grp[n].stage = RuleStage(grp[n].timestamp, P)
             /\ Cardinality(buys) = 1 =>
                   \A n \in DOMAIN grp :
                       /\ grp[n].stage # "stage_2"
                       /\ grp[n].purchase => grp[n].stage = "stage_1"

\* C9: assign_stages keeps every event exactly once, and in a group with a
\* purchase labels it stage_1 iff timestamp <= first purchase, stage_2 iff
\* first < timestamp <= last purchase, stage_3 iff timestamp > last; with a
\* single purchase event nothing is stage_2 and the purchase is stage_1.
C9_StageLabels ==
    [][(pc \in {"loaded", "convos"} /\ pc' \in {"staged", "staged_convos"})
          => (SameRows(df, df') /\ StagedByRule(df'))]_vars

\* A group staged into all three stages around two purchase events.
C9_Witness ==
    /\ pc = "staged"
    /\ \E g \in GroupIds(df) :
          LET grp == GroupRows(df, g)
          IN /\ Len(grp) = 3
             /\ grp[1].purchase /\ grp[1].stage = "stage_1"
             /\ grp[2].purchase /\ grp[2].stage = "stage_2"
             /\ ~grp[3].purchase /\ grp[3].stage = "stage_3"

\* C2: the stage of an event follows from the purchase events of its own
\* conversation alone; a conversation without purchases is all stage_1.
C2_StagePerConversation ==
    pc = "staged_convos" =>
        \A n \in DOMAIN df :
            LET own == {m \in DOMAIN df :
                           df[m].conversation_id = df[n].conversation_id}
                P == {df[m].timestamp : m \in {x \in own : df[x].purchase}}
            IN df[n].stage = RuleStage(df[n].timestamp, P)

\* Indices of the fans of the current batch.
BatchFans == BatchIdx(Len(fan_ids), batch_i)

HasEntry(text) == cache[get_hash(text)] # Absent

RECURSIVE TextsWithoutEntry(_, _)
\* The texts of the fans lo..hi that have no cache entry, in batch order.
TextsWithoutEntry(lo, hi) ==
    IF lo > hi THEN <<>>
    ELSE (IF HasEntry(all_fan_texts[lo]) THEN <<>> ELSE <<all_fan_texts[lo]>>)
         \o TextsWithoutEntry(lo + 1, hi)

RowsOf(rows, f) == Cardinality({n \in DOMAIN rows : rows[n].fan_model_id = f})

\* C1: the table profile_fans returns has exactly one row for every fan of
\* the input and no other row.
C1_OneRowPerFan ==
    (ppc = "idle" /\ runs > 0) =>
        \A f \in Fans :
            RowsOf(result, f) = IF \E n \in DOMAIN fan_ids : fan_ids[n] = f
                                THEN 1 ELSE 0

\* C3: no text is submitted to the service more than once, within a call,
\* across the batches of a run or across runs.
C3_AtMostOnce == \A t \in Texts : sent[t] # "again"

\* C5: a cache entry that decodes is never replaced by another value that
\* decodes (the write-once claim without the files a failed write leaves).
C5_WriteOnce ==
    [][\A h \in HashKeys :
          (cache[h] \notin {Absent, Corrupt} /\ cache'[h] # Corrupt)
             => cache'[h] = cache[h]]_vars

\* C6: no cache failure ends profile_fans, and when the service returned a
\* dict for every fan it was asked about, the batch emits those profiles.
C6_CacheFailureTolerated ==
    /\ ppc # "crashed"
    /\ (/\ ppc = "extend"
        /\ response.kind = "array"
        /\ Len(new_profiles) >= Len(to_query_ids)
        /\ \A j \in DOMAIN to_query_ids : new_profiles[j] # NonDict)
       => \A j \in DOMAIN to_query_ids :
             \E n \in DOMAIN final_batch_profiles :
                final_batch_profiles[n]
                    = Tagged(normalize_keys(new_profiles[j]), to_query_ids[j])

\* C10: the cache never holds a placeholder: every entry that decodes came
\* from a response that was parsed.
C10_NoPlaceholderCached ==
    \A h \in HashKeys : cache[h] \in {Absent, Corrupt} \/ cache[h].body # "empty"

====
